---- MODULE Spec2Model ----
(***************************************************************************)
(* Model of the p2p Host lifecycle of apps/broker/internal/networking/     *)
(* host.go: Start, Stop, Status, the genesis gate awaitStateInitialized,   *)
(* and the connect paths connectToBootnodes, connectWithAllPeers,          *)
(* connectWithAllTrustedPeers and connectWithPeer.                         *)
(*                                                                         *)
(* Callers are goroutines of the surrounding process; each is either idle  *)
(* or at a labelled position inside Start or Stop.  Status reads four      *)
(* fields and writes none; it is one step.  Every dial goroutine spawned   *)
(* with `go func` is an element of the bag `pending` until it runs.        *)
(***************************************************************************)
EXTENDS Integers, Sequences, FiniteSets, Bags, TLC

\* ---------------------------------------------------------------- bounds
\* longest list of bootstrap entries and of static peers configured
MaxBoot == 2
MaxStatic == 3
\* Start calls that pass the already-started check
MaxStarts == 2
\* nodes the discovery loop forwards
MaxDiscovered == 1

\* ------------------------------------------------------------- constants
\* async.RunEvery is called five times by Start
NumPeriodic == 5
\* len(s.genesisValidatorsRoot) == 32
RootLen == 32

SelfID == 0
PeerIDs == {0, 1, 2, 3}
Callers == {1, 2}
GenesisTimes == {1, 2}
NoPeer == -1

\* ---------------------------------------------------------- configuration
\* One entry of cfg.Discv5BootStrapAddrs: the identity of the record, whether
\* enode.Parse accepts the string, and whether the record has a "tcp" entry.
BootEntries == [id : {SelfID, 1}, parses : BOOLEAN, tcp : BOOLEAN]

RECURSIVE SeqsUpTo(_, _)
SeqsUpTo(S, n) ==
  IF n = 0 THEN {<<>>}
  ELSE LET shorter == SeqsUpTo(S, n - 1)
       IN shorter \cup {Append(q, x) : q \in {r \in shorter : Len(r) = n - 1}, x \in S}

Range(q) == {q[i] : i \in 1..Len(q)}

Distinct(q) == \A i, j \in 1..Len(q) : i # j => q[i] # q[j]

VARIABLES
  cfg,                    \* s.cfg: NoDiscovery, RelayNodeAddr, Discv5BootStrapAddrs, StaticPeers
  started,                \* s.started
  isPreGenesis,           \* s.isPreGenesis
  genesisTime,            \* s.genesisTime, 0 is the zero time
  genesisValidatorsRoot,  \* len(s.genesisValidatorsRoot)
  startupErr,             \* s.startupErr
  dv5Listener,            \* s.dv5Listener, 0 is nil
  ctxDone,                \* s.ctx has been cancelled
  initializationLock,     \* holder of s.initializationLock, 0 when free
  pc,                     \* position of each caller
  listener,               \* local `listener` of a caller inside Start
  clock,                  \* what ClockWaiter has to offer, 0 while not ready
  exited,                 \* the process has terminated (log.Fatal)
  openListeners,          \* discovery listeners started and not closed
  discLoops,              \* listenForNewNodes goroutines started
  trusted,                \* s.peers trusted set
  badPeers,               \* peers the Reputation collaborator reports bad
  badResponses,           \* BadResponsesScorer count per peer
  pending,                \* spawned connectWithPeer goroutines not yet run
  last,                   \* outcome of the most recent connect attempt
  tasks,                  \* async.RunEvery loops registered
  hist                    \* bookkeeping of calls and events

vars == <<cfg, started, isPreGenesis, genesisTime, genesisValidatorsRoot,
          startupErr, dv5Listener, ctxDone, initializationLock, pc, listener,
          clock, exited, openListeners, discLoops, trusted, badPeers,
          badResponses, pending, last, tasks, hist>>

hostVars == <<started, isPreGenesis, genesisTime, genesisValidatorsRoot,
              startupErr, dv5Listener, ctxDone, initializationLock>>

peerVars == <<trusted, badPeers, badResponses, pending, last>>

\* ------------------------------------------------------------ pure parts

\* Service.isInitialized
isInitialized == genesisTime # 0 /\ genesisValidatorsRoot = RootLen

\* the bootnode loop leaving at the first record without a "tcp" entry
RECURSIVE bootLoop_Break(_, _, _)
bootLoop_Break(addrs, i, nodes) ==
  IF i > Len(addrs) THEN [err |-> FALSE, nodes |-> nodes]
  ELSE IF ~addrs[i].parses THEN [err |-> TRUE, nodes |-> <<>>]
  ELSE IF ~addrs[i].tcp THEN [err |-> FALSE, nodes |-> nodes]
  ELSE bootLoop_Break(addrs, i + 1, Append(nodes, addrs[i]))

\* The node list connectToBootnodes has built after its loop over
\* cfg.Discv5BootStrapAddrs: enode.Parse failing returns the error at once,
\* a record without a "tcp" entry is skipped with `continue`, every other
\* node is appended.  Result: [err |-> the loop returned an error, nodes |-> ...]
RECURSIVE bootLoop(_, _, _)
bootLoop(addrs, i, nodes) ==
  IF i > Len(addrs) THEN [err |-> FALSE, nodes |-> nodes]
  ELSE IF ~addrs[i].parses THEN [err |-> TRUE, nodes |-> <<>>]
  ELSE IF ~addrs[i].tcp THEN bootLoop(addrs, i + 1, nodes)
  ELSE bootLoop(addrs, i + 1, Append(nodes, addrs[i]))

\* convertToMultiAddr: one dialable address per node, carrying its identity
convertToMultiAddr(nodes) == [i \in 1..Len(nodes) |-> nodes[i].id]

\* peer.AddrInfosFromP2pAddrs groups the addresses by peer identity; an
\* address that names no peer makes it return an error and no address info
AddrInfosFromP2pAddrs(multiAddrs) ==
  IF NoPeer \in Range(multiAddrs)
  THEN [err |-> TRUE, infos |-> {}]
  ELSE [err |-> FALSE, infos |-> Range(multiAddrs)]

\* peerIdsFromMultiAddrs: the identities of the addresses that name a peer
peerIdsFromMultiAddrs(addrs) == Range(addrs) \ {NoPeer}

\* the goroutines one batch spawns: one connectWithPeer per address info
Spawn(infos, kind) == SetToBag({[id |-> i, kind |-> kind] : i \in infos})

\* connectWithAllPeers, as the bag of goroutines it adds
connectWithAllPeers(multiAddrs, kind) ==
  LET r == AddrInfosFromP2pAddrs(multiAddrs)
  IN IF r.err THEN EmptyBag ELSE Spawn(r.infos, kind)

\* connectWithAllTrustedPeers leaving its loop after the first address info
connectWithAllTrustedPeers_FirstOnly(multiAddrs) ==
  Spawn({multiAddrs[1]}, "static")

\* connectWithAllTrustedPeers, as the bag of goroutines it adds
connectWithAllTrustedPeers(multiAddrs) ==
  LET r == AddrInfosFromP2pAddrs(multiAddrs)
  IN IF r.err THEN EmptyBag ELSE Spawn(r.infos, "static")

\* Peers().IsBad
IsBad(id) == id \in badPeers

\* connectWithPeer without the comparison with s.host.ID()
connectWithPeer_NoSelfCheck(id, dialOK) ==
  IF IsBad(id) THEN [connect |-> FALSE, err |-> "refused_bad_peer", inc |-> FALSE]
  ELSE IF ~dialOK THEN [connect |-> TRUE, err |-> "dial_failed", inc |-> TRUE]
  ELSE [connect |-> TRUE, err |-> "nil", inc |-> FALSE]

\* connectWithPeer without the IsBad refusal
connectWithPeer_NoBadCheck(id, dialOK) ==
  IF id = SelfID THEN [connect |-> FALSE, err |-> "nil", inc |-> FALSE]
  ELSE IF ~dialOK THEN [connect |-> TRUE, err |-> "dial_failed", inc |-> TRUE]
  ELSE [connect |-> TRUE, err |-> "nil", inc |-> FALSE]

\* connectWithPeer without the Increment on a failed dial
connectWithPeer_NoIncrement(id, dialOK) ==
  IF id = SelfID THEN [connect |-> FALSE, err |-> "nil", inc |-> FALSE]
  ELSE IF IsBad(id) THEN [connect |-> FALSE, err |-> "refused_bad_peer", inc |-> FALSE]
  ELSE IF ~dialOK THEN [connect |-> TRUE, err |-> "dial_failed", inc |-> FALSE]
  ELSE [connect |-> TRUE, err |-> "nil", inc |-> FALSE]

\* Service.connectWithPeer with the Transport's answer `dialOK`:
\* [connect |-> host.Connect was called, err |-> returned error, inc |-> Increment was called]
connectWithPeer(id, dialOK) ==
  IF id = SelfID THEN [connect |-> FALSE, err |-> "nil", inc |-> FALSE]
  ELSE IF IsBad(id) THEN [connect |-> FALSE, err |-> "refused_bad_peer", inc |-> FALSE]
  ELSE IF ~dialOK THEN [connect |-> TRUE, err |-> "dial_failed", inc |-> TRUE]
  ELSE [connect |-> TRUE, err |-> "nil", inc |-> FALSE]

\* Status with the started check ahead of the pre-genesis check
Status_StartedFirst ==
  IF ~started THEN "not_running"
  ELSE IF isPreGenesis THEN "nil"
  ELSE IF startupErr # "nil" THEN startupErr
  ELSE IF genesisTime = 0 THEN "no_genesis_time"
  ELSE "nil"

\* Host.Status
Status ==
  IF isPreGenesis THEN "nil"
  ELSE IF ~started THEN "not_running"
  ELSE IF startupErr # "nil" THEN startupErr
  ELSE IF genesisTime = 0 THEN "no_genesis_time"
  ELSE "nil"

\* ------------------------------------------------------------------ Init

NoAttempt == [connect |-> FALSE, err |-> "none"]

\* The state NewHost leaves: isPreGenesis true, a fresh cancellable context,
\* nothing started, no genesis data.  `callers` are the goroutines that will
\* call Start, Stop and Status.
InitHost(callers, budget) ==
  /\ started = FALSE
  /\ isPreGenesis = TRUE
  /\ genesisTime = 0
  /\ genesisValidatorsRoot = 0
  /\ startupErr = "nil"
  /\ dv5Listener = 0
  /\ ctxDone = FALSE
  /\ initializationLock = 0
  /\ pc = [p \in Callers |-> IF p \in callers THEN "idle" ELSE "absent"]
  /\ listener = [p \in Callers |-> 0]
  /\ clock = 0
  /\ exited = FALSE
  /\ openListeners = {}
  /\ discLoops = 0
  /\ trusted = {}
  /\ badResponses = [i \in PeerIDs |-> 0]
  /\ pending = EmptyBag
  /\ last = NoAttempt
  /\ tasks = 0
  /\ hist = [budget |-> budget, waits |-> 0, writes |-> 0, made |-> 0,
             discovered |-> 0, ticked |-> FALSE, running |-> FALSE,
             stopped |-> FALSE, quiet |-> FALSE,
             status |-> "none", observed |-> {}, dup |-> {},
             late |-> FALSE,
             stopSeen |-> [p \in Callers |-> FALSE]]

Unparsable == [id |-> 1, parses |-> FALSE, tcp |-> TRUE]

Ascending(q) == \A i, j \in 1..Len(q) : i < j => q[i] < q[j]

\* Two concurrent callers, under the configurations that decide the paths
\* through Start: discovery disabled, with and without a relay node, and
\* discovery enabled with either outcome of log.Fatal and with a bootstrap
\* list that parses or does not
LifecycleConfigs ==
  [noDiscovery : {TRUE}, fatalExits : {TRUE}, relay : {NoPeer, 1},
   boot : {<<>>}, static : {<<>>}]
  \cup
  [noDiscovery : {FALSE}, fatalExits : BOOLEAN, relay : {NoPeer},
   boot : {<<>>, <<Unparsable>>}, static : {<<>>}]

Init ==
  /\ InitHost(Callers, MaxStarts)
  /\ cfg \in LifecycleConfigs
  /\ badPeers = {}

\* One caller that calls Start once: under every list of bootstrap entries,
\* under every list of static peers with distinct identities, with a relay
\* node, a bootstrap node and a static peer together, and with a static
\* address that names no peer before or after a well-formed one
DialConfigs ==
  [noDiscovery : {FALSE}, fatalExits : {TRUE}, relay : {NoPeer},
   boot : SeqsUpTo(BootEntries, MaxBoot), static : {<<>>}]
  \cup
  [noDiscovery : {TRUE}, fatalExits : {TRUE}, relay : {NoPeer}, boot : {<<>>},
   static : {q \in SeqsUpTo(PeerIDs, MaxStatic) : Ascending(q)}]
  \cup
  [noDiscovery : {FALSE}, fatalExits : {TRUE}, relay : {1},
   boot : {<<[id |-> 2, parses |-> TRUE, tcp |-> TRUE]>>}, static : {<<3>>}]
  \cup
  [noDiscovery : {TRUE}, fatalExits : {TRUE}, relay : {NoPeer}, boot : {<<>>},
   static : {<<1, NoPeer>>, <<NoPeer, 2>>}]

InitDial ==
  /\ InitHost({1}, 1)
  /\ cfg \in DialConfigs
  /\ badPeers \in {{}, {SelfID, 1}}

\* --------------------------------------------------------------- helpers

Goto(p, l) == pc' = [pc EXCEPT ![p] = l]

Observed == <<genesisTime, genesisValidatorsRoot>>

\* a caller is inside Start
InStart(p) ==
  pc[p] \in {"await", "waitForClock", "gated", "discovery", "bootnodes",
             "setStarted", "periodic"}

\* ----------------------------------------------------------------- Start

\* an earlier Start has been invoked by another caller, has not returned, and
\* no Stop has completed since a Start was last invoked
Duplicate(p) ==
  ~hist.stopped /\ \E q \in Callers \ {p} : InStart(q)

\* Start creating a fresh context when it gets past the started check
StartCall_NewContext(p) ==
  /\ ~exited /\ pc[p] = "idle"
  /\ IF started
     THEN /\ hist' = [hist EXCEPT !.stopped = FALSE, !.quiet = FALSE,
                                  !.dup = @ \ {p}]
          /\ UNCHANGED <<pc, listener, ctxDone>>
     ELSE /\ hist.budget > 0
          /\ hist' = [hist EXCEPT !.budget = @ - 1, !.status = "none",
                                  !.stopped = FALSE, !.quiet = FALSE,
                                  !.dup = IF Duplicate(p) THEN @ \cup {p}
                                          ELSE @ \ {p},
                                  !.late = ctxDone]
          /\ Goto(p, "await")
          /\ listener' = [listener EXCEPT ![p] = 0]
          /\ ctxDone' = FALSE
  /\ UNCHANGED <<cfg, started, isPreGenesis, genesisTime, genesisValidatorsRoot,
                 startupErr, dv5Listener, initializationLock, clock, exited,
                 openListeners, discLoops, peerVars, tasks>>

\* Start, lines 100-105: the already-started check
StartCall(p) ==
  /\ ~exited /\ pc[p] = "idle"
  /\ IF started
     THEN /\ hist' = [hist EXCEPT !.stopped = FALSE, !.quiet = FALSE,
                                  !.dup = @ \ {p}]
          /\ UNCHANGED <<pc, listener>>
     ELSE /\ hist.budget > 0
          /\ hist' = [hist EXCEPT !.budget = @ - 1, !.status = "none",
                                  !.stopped = FALSE, !.quiet = FALSE,
                                  !.dup = IF Duplicate(p) THEN @ \cup {p}
                                          ELSE @ \ {p},
                                  !.late = ctxDone]
          /\ Goto(p, "await")
          /\ listener' = [listener EXCEPT ![p] = 0]
  /\ UNCHANGED <<cfg, hostVars, clock, exited, openListeners, discLoops,
                 peerVars, tasks>>

\* awaitStateInitialized without the isInitialized test
awaitStateInitialized_NoCheck(p) ==
  /\ ~exited /\ pc[p] = "await"
  /\ initializationLock = 0
  /\ Goto(p, "waitForClock")
  /\ initializationLock' = p
  /\ hist' = [hist EXCEPT !.waits = @ + 1]
  /\ UNCHANGED <<cfg, started, isPreGenesis, genesisTime, genesisValidatorsRoot,
                 startupErr, dv5Listener, ctxDone, listener, clock, exited,
                 openListeners, discLoops, peerVars, tasks>>

\* awaitStateInitialized without s.initializationLock
awaitStateInitialized_NoLock(p) ==
  /\ ~exited /\ pc[p] = "await"
  /\ IF isInitialized
     THEN /\ Goto(p, "gated")
          /\ hist' = [hist EXCEPT !.observed = @ \cup {Observed}]
          /\ UNCHANGED initializationLock
     ELSE /\ Goto(p, "waitForClock")
          /\ initializationLock' = p
          /\ hist' = [hist EXCEPT !.waits = @ + 1]
  /\ UNCHANGED <<cfg, started, isPreGenesis, genesisTime, genesisValidatorsRoot,
                 startupErr, dv5Listener, ctxDone, listener, clock, exited,
                 openListeners, discLoops, peerVars, tasks>>

\* awaitStateInitialized returning without the genesis data
awaitStateInitialized_NoWait(p) ==
  /\ ~exited /\ pc[p] = "await"
  /\ initializationLock = 0
  /\ Goto(p, "gated")
  /\ UNCHANGED <<cfg, hostVars, listener, clock, exited, openListeners,
                 discLoops, peerVars, tasks, hist>>

\* awaitStateInitialized, lines 337-342: take the lock; return at once when
\* the genesis data is known, else call ClockWaiter.WaitForClock
awaitStateInitialized(p) ==
  /\ ~exited /\ pc[p] = "await"
  /\ initializationLock = 0
  /\ IF isInitialized
     THEN /\ Goto(p, "gated")
          /\ hist' = [hist EXCEPT !.observed = @ \cup {Observed}]
          /\ UNCHANGED initializationLock
     ELSE /\ Goto(p, "waitForClock")
          /\ initializationLock' = p
          /\ hist' = [hist EXCEPT !.waits = @ + 1]
  /\ UNCHANGED <<cfg, started, isPreGenesis, genesisTime, genesisValidatorsRoot,
                 startupErr, dv5Listener, ctxDone, listener, clock, exited,
                 openListeners, discLoops, peerVars, tasks>>

\* awaitStateInitialized, lines 342-353: WaitForClock answers with the clock;
\* the genesis data is recorded and the deferred Unlock runs
WaitForClockReturns(p) ==
  /\ ~exited /\ pc[p] = "waitForClock"
  /\ clock # 0
  /\ genesisTime' = clock
  /\ genesisValidatorsRoot' = RootLen
  /\ initializationLock' = 0
  /\ Goto(p, "gated")
  /\ hist' = [hist EXCEPT !.writes = @ + 1, !.observed = @ \cup {<<clock, RootLen>>}]
  /\ UNCHANGED <<cfg, started, isPreGenesis, startupErr, dv5Listener, ctxDone,
                 listener, clock, exited, openListeners, discLoops, peerVars,
                 tasks>>

\* awaitStateInitialized, lines 342-346: WaitForClock answers with the
\* context's error; log.Fatal ends the process, and where the logger's exit
\* function was replaced the nil clock is dereferenced at line 346
WaitForClockFails(p) ==
  /\ ~exited /\ pc[p] = "waitForClock"
  /\ ctxDone
  /\ exited' = TRUE
  /\ UNCHANGED <<cfg, hostVars, pc, listener, clock, openListeners, discLoops,
                 peerVars, tasks, hist>>

\* The chain start becomes known to the ClockWaiter collaborator
SetClock ==
  /\ ~exited /\ clock = 0
  /\ clock' \in GenesisTimes
  /\ UNCHANGED <<cfg, hostVars, pc, listener, exited, openListeners, discLoops,
                 peerVars, tasks, hist>>

\* Start, lines 109-117: isPreGenesis is cleared and, when a relay node is
\* configured, it is dialed in the calling goroutine; a failure is logged only
DialRelay(p) ==
  /\ ~exited /\ pc[p] = "gated"
  /\ isPreGenesis' = FALSE
  /\ IF cfg.relay # NoPeer
     THEN \E dialOK \in BOOLEAN :
            /\ dialOK => ~ctxDone
            /\ last' = [connect |-> TRUE,
                        err |-> IF dialOK THEN "nil" ELSE "dial_failed"]
     ELSE UNCHANGED last
  /\ Goto(p, "discovery")
  /\ UNCHANGED <<cfg, started, genesisTime, genesisValidatorsRoot, startupErr,
                 dv5Listener, ctxDone, initializationLock, listener, clock,
                 exited, openListeners, discLoops, trusted, badPeers,
                 badResponses, pending, tasks, hist>>

\* Start, lines 119-129: startDiscoveryV5.  On its failure log.Fatal ends the
\* process; lines 127-128 run where the logger's exit function was replaced.
StartDiscovery(p) ==
  /\ ~exited /\ pc[p] = "discovery"
  /\ IF cfg.noDiscovery
     THEN /\ Goto(p, "setStarted")
          /\ UNCHANGED <<startupErr, listener, exited, openListeners, hist>>
     ELSE \E ok \in BOOLEAN :
            IF ok
            THEN /\ listener' = [listener EXCEPT ![p] = hist.made + 1]
                 /\ openListeners' = openListeners \cup {hist.made + 1}
                 /\ hist' = [hist EXCEPT !.made = @ + 1]
                 /\ Goto(p, "bootnodes")
                 /\ UNCHANGED <<startupErr, exited>>
            ELSE IF cfg.fatalExits
            THEN /\ exited' = TRUE
                 /\ UNCHANGED <<startupErr, listener, openListeners, hist, pc>>
            ELSE /\ startupErr' = "discovery_error"
                 /\ Goto(p, "idle")
                 /\ UNCHANGED <<listener, exited, openListeners, hist>>
  /\ UNCHANGED <<cfg, started, isPreGenesis, genesisTime, genesisValidatorsRoot,
                 dv5Listener, ctxDone, initializationLock, clock, discLoops,
                 peerVars, tasks>>

\* Start, lines 131-138, with connectToBootnodes, lines 408-427: on an error
\* startupErr is set and Start returns; otherwise the bootnode dials are
\* spawned, the listener is stored and listenForNewNodes is started
connectToBootnodes(p) ==
  /\ ~exited /\ pc[p] = "bootnodes"
  /\ LET r == bootLoop(cfg.boot, 1, <<>>)
     IN IF r.err
        THEN /\ startupErr' = "parse_error"
             /\ Goto(p, "idle")
             /\ listener' = [listener EXCEPT ![p] = 0]
             /\ UNCHANGED <<pending, dv5Listener, discLoops>>
        ELSE /\ pending' = pending (+) connectWithAllPeers(convertToMultiAddr(r.nodes), "boot")
             /\ dv5Listener' = listener[p]
             /\ discLoops' = discLoops + 1
             /\ listener' = [listener EXCEPT ![p] = 0]
             /\ Goto(p, "setStarted")
             /\ UNCHANGED startupErr
  /\ UNCHANGED <<cfg, started, isPreGenesis, genesisTime, genesisValidatorsRoot,
                 ctxDone, initializationLock, clock, exited, openListeners,
                 trusted, badPeers, badResponses, last, tasks, hist>>

\* Start without line 141
SetStarted_Forgets(p) ==
  /\ ~exited /\ pc[p] = "setStarted"
  /\ IF Len(cfg.static) > 0
     THEN LET addrs == cfg.static
          IN /\ trusted' = trusted \cup peerIdsFromMultiAddrs(addrs)
             /\ pending' = pending (+) connectWithAllTrustedPeers(addrs)
     ELSE UNCHANGED <<trusted, pending>>
  /\ Goto(p, "periodic")
  /\ hist' = [hist EXCEPT !.stopSeen[p] = FALSE]
  /\ UNCHANGED <<cfg, hostVars, listener, clock, exited, openListeners,
                 discLoops, badPeers, badResponses, last, tasks>>

\* Start, lines 141-155: started is set; the static peers become trusted and
\* are dialed, each in its own goroutine
SetStarted(p) ==
  /\ ~exited /\ pc[p] = "setStarted"
  /\ started' = TRUE
  /\ IF Len(cfg.static) > 0
     THEN LET addrs == cfg.static
          IN /\ trusted' = trusted \cup peerIdsFromMultiAddrs(addrs)
             /\ pending' = pending (+) connectWithAllTrustedPeers(addrs)
     ELSE UNCHANGED <<trusted, pending>>
  /\ Goto(p, "periodic")
  /\ hist' = [hist EXCEPT !.stopSeen[p] = FALSE]
  /\ UNCHANGED <<cfg, isPreGenesis, genesisTime, genesisValidatorsRoot,
                 startupErr, dv5Listener, ctxDone, initializationLock, listener,
                 clock, exited, openListeners, discLoops, badPeers,
                 badResponses, last, tasks>>

\* Start, lines 157-202: the five async.RunEvery loops are registered and
\* Start returns
RegisterPeriodic(p) ==
  /\ ~exited /\ pc[p] = "periodic"
  /\ tasks' = tasks + NumPeriodic
  /\ Goto(p, "idle")
  /\ hist' = [hist EXCEPT !.running = @ \/ ~hist.stopSeen[p],
                          !.stopSeen[p] = FALSE]
  /\ UNCHANGED <<cfg, hostVars, listener, clock, exited, openListeners,
                 discLoops, peerVars>>

\* ------------------------------------------------------------------ Stop

\* Stop without line 207
StopCall_KeepsStarted(p) ==
  /\ ~exited /\ pc[p] = "idle"
  /\ Goto(p, "stopClose")
  /\ hist' = [hist EXCEPT !.running = FALSE, !.status = "none",
                          !.quiet = \A q \in Callers : ~InStart(q),
                          !.stopSeen = [q \in Callers |-> pc[q] = "periodic"]]
  /\ UNCHANGED <<cfg, hostVars, listener, clock, exited, openListeners,
                 discLoops, peerVars, tasks>>

\* Stop, line 207
StopCall(p) ==
  /\ ~exited /\ pc[p] = "idle"
  /\ started' = FALSE
  /\ Goto(p, "stopClose")
  /\ hist' = [hist EXCEPT !.running = FALSE, !.status = "none",
                          !.quiet = \A q \in Callers : ~InStart(q),
                          !.stopSeen = [q \in Callers |-> pc[q] = "periodic"]]
  /\ UNCHANGED <<cfg, isPreGenesis, genesisTime, genesisValidatorsRoot,
                 startupErr, dv5Listener, ctxDone, initializationLock, listener,
                 clock, exited, openListeners, discLoops, peerVars, tasks>>

\* Stop, lines 208-210
StopClose(p) ==
  /\ ~exited /\ pc[p] = "stopClose"
  /\ openListeners' = IF dv5Listener # 0 THEN openListeners \ {dv5Listener}
                      ELSE openListeners
  /\ Goto(p, "stopCancel")
  /\ UNCHANGED <<cfg, hostVars, listener, clock, exited, discLoops, peerVars,
                 tasks, hist>>

\* Stop returning without the deferred s.cancel()
StopCancel_NoCancel(p) ==
  /\ ~exited /\ pc[p] = "stopCancel"
  /\ Goto(p, "idle")
  /\ hist' = [hist EXCEPT !.stopped = TRUE, !.status = "none"]
  /\ UNCHANGED <<cfg, hostVars, listener, clock, exited, openListeners,
                 discLoops, peerVars, tasks>>

\* Stop, lines 206 and 211: the deferred s.cancel() runs as Stop returns
StopCancel(p) ==
  /\ ~exited /\ pc[p] = "stopCancel"
  /\ ctxDone' = TRUE
  /\ Goto(p, "idle")
  /\ hist' = [hist EXCEPT !.stopped = TRUE, !.status = "none"]
  /\ UNCHANGED <<cfg, started, isPreGenesis, genesisTime, genesisValidatorsRoot,
                 startupErr, dv5Listener, initializationLock, listener, clock,
                 exited, openListeners, discLoops, peerVars, tasks>>

\* ---------------------------------------------------------------- Status

\* Status, lines 216-230
StatusCall(p) ==
  /\ ~exited /\ pc[p] = "idle"
  /\ hist' = [hist EXCEPT !.status = Status]
  /\ UNCHANGED <<cfg, hostVars, pc, listener, clock, exited, openListeners,
                 discLoops, peerVars, tasks>>

\* ------------------------------------------------------------ goroutines

\* One spawned goroutine runs connectWithPeer, lines 389-406.  A dial under
\* a cancelled context fails.
ConnectAttempt(a) ==
  /\ ~exited /\ BagIn(a, pending)
  /\ \E dialOK \in BOOLEAN :
       /\ dialOK => ~ctxDone
       /\ LET r == connectWithPeer(a.id, dialOK)
          IN /\ last' = [connect |-> r.connect, err |-> r.err]
             /\ badResponses' = IF r.inc
                                THEN [badResponses EXCEPT ![a.id] = @ + 1]
                                ELSE badResponses
  /\ pending' = pending (-) SetToBag({a})
  /\ UNCHANGED <<cfg, hostVars, pc, listener, clock, exited, openListeners,
                 discLoops, trusted, badPeers, tasks, hist>>

\* listenForNewNodes: a discovered node is forwarded to connectWithAllPeers
\* until the context is cancelled
ListenForNewNodes ==
  /\ ~exited /\ discLoops > 0 /\ ~ctxDone
  /\ hist.discovered < MaxDiscovered
  /\ \E id \in {SelfID, 1} :
       pending' = pending (+) connectWithAllPeers(<<id>>, "disc")
  /\ hist' = [hist EXCEPT !.discovered = @ + 1]
  /\ UNCHANGED <<cfg, hostVars, pc, listener, clock, exited, openListeners,
                 discLoops, trusted, badPeers, badResponses, last, tasks>>

\* async.RunEvery: one registered loop runs its function on a tick, as long
\* as the context is not cancelled
TaskTick ==
  /\ ~exited /\ tasks > 0 /\ ~ctxDone
  /\ hist' = [hist EXCEPT !.ticked = TRUE]
  /\ UNCHANGED <<cfg, hostVars, pc, listener, clock, exited, openListeners,
                 discLoops, peerVars, tasks>>

\* ------------------------------------------------------------------ Next

Attempts == [id : PeerIDs, kind : {"boot", "static", "disc"}]

Next ==
  \/ \E p \in Callers : StartCall(p)
  \/ \E p \in Callers : awaitStateInitialized(p)
  \/ \E p \in Callers : WaitForClockReturns(p)
  \/ \E p \in Callers : WaitForClockFails(p)
  \/ SetClock
  \/ \E p \in Callers : DialRelay(p)
  \/ \E p \in Callers : StartDiscovery(p)
  \/ \E p \in Callers : connectToBootnodes(p)
  \/ \E p \in Callers : SetStarted(p)
  \/ \E p \in Callers : RegisterPeriodic(p)
  \/ \E p \in Callers : StopCall(p)
  \/ \E p \in Callers : StopClose(p)
  \/ \E p \in Callers : StopCancel(p)
  \/ \E p \in Callers : StatusCall(p)
  \/ \E a \in Attempts : ConnectAttempt(a)
  \/ ListenForNewNodes
  \/ TaskTick

Spec == Init /\ [][Next]_vars

SpecDial == InitDial /\ [][Next]_vars


\* ---------------------------------------------------------------- claims

\* C1: in every reachable state in which isPreGenesis is true, a Status call
\* returns no error, and every Status call made so far has returned no error;
\* this covers Start never called, Start blocked in the genesis wait, and
\* Stop called.
C1_PreGenesisHealthy ==
  isPreGenesis => (Status = "nil" /\ hist.status \in {"none", "nil"})

\* C1 witness: Status has returned no error after Stop returned, while
\* another caller's Start is blocked in the genesis wait
C1_Witness ==
  /\ isPreGenesis /\ hist.status = "nil" /\ hist.stopped
  /\ \E p \in Callers : pc[p] = "waitForClock"

\* C2: after a Start call has completed successfully and before any Stop,
\* Status returns no error exactly when the genesis time is set and no
\* startup error is recorded, whatever earlier Start attempts did.
C2_RunningStatus ==
  hist.running => (Status = "nil" <=> (genesisTime # 0 /\ startupErr = "nil"))

\* C2 witness: a Start completed successfully after an earlier attempt had
\* recorded startupErr, and Status has returned that error
C2_Witness ==
  /\ hist.running /\ startupErr # "nil" /\ hist.status = startupErr

\* C3 as stated: after Stop has returned and until a later Start is called,
\* Status returns "not running", from every state in which Stop was called.
C3_Original ==
  hist.stopped => Status = "not_running"

\* C3 amended: after Stop has returned and until a later Start is called,
\* Status returns "not running", provided isPreGenesis has been cleared and
\* no Start call was in progress at any time since that Stop was called.
C3_StoppedNotRunning ==
  (hist.stopped /\ hist.quiet /\ ~isPreGenesis) => Status = "not_running"

\* C3 witness: Status was called after Stop returned and reported
\* "not running"
C3_Witness ==
  /\ hist.stopped /\ hist.quiet /\ ~isPreGenesis
  /\ hist.status = "not_running"

\* C4: WaitForClock is called at most once in the process, and every caller
\* that returns from awaitStateInitialized observes the one recorded genesis
\* time and genesis validators root.
C4_SingleFlight ==
  /\ hist.waits <= 1
  /\ \A o \in hist.observed :
       o = Observed /\ o[1] \in GenesisTimes /\ o[2] = RootLen

\* C4 witness: two callers have both passed the gate after a single wait
C4_Witness ==
  /\ hist.waits = 1
  /\ \E p, q \in Callers : p # q /\ pc[p] = "gated" /\ pc[q] = "gated"

\* C5: no relay dial, bootstrap dial, static-peer dial or discovery-driven
\* dial has begun, and no discovery loop runs, while the genesis time or the
\* genesis validators root is unset.
C5_GenesisBeforeDial ==
  (BagCardinality(pending) > 0 \/ last.err # "none" \/ discLoops > 0)
    => isInitialized

\* C5 witness: the relay node was dialed and a bootstrap dial, a static-peer
\* dial and a discovery-driven dial are spawned
C5_Witness ==
  /\ cfg.relay # NoPeer /\ last.connect
  /\ \A k \in {"boot", "static", "disc"} :
       \E a \in BagToSet(pending) : a.kind = k
  /\ isInitialized

\* the step runs the spawned connect attempt a to its end
Ran(a) == CopiesIn(a, pending') = CopiesIn(a, pending) - 1

\* C6: a connect attempt whose peer identity is the local host identity,
\* from a bootstrap batch, a static batch or a discovered node, never calls
\* Transport.Connect and reports no error.
C6_SelfDialSkipped ==
  [][\A a \in Attempts :
       (a.id = SelfID /\ Ran(a)) => (~last'.connect /\ last'.err = "nil")]_vars

\* C6 witness: an attempt was skipped without an error although the
\* Reputation collaborator reports the local identity bad
C6_Witness ==
  ~last.connect /\ last.err = "nil" /\ SelfID \in badPeers

\* C7: a non-trusted connect attempt (bootstrap or discovered) for which
\* IsBad returns an error does not call Transport.Connect and returns the
\* "refused: bad peer" error.  IsBad is called for every peer but the local
\* identity.
C7_BadPeerRefused ==
  [][\A a \in Attempts :
       (a.kind \in {"boot", "disc"} /\ a.id # SelfID /\ IsBad(a.id) /\ Ran(a))
         => (~last'.connect /\ last'.err = "refused_bad_peer")]_vars

\* C7 witness: a bootstrap or discovered peer was refused as bad
C7_Witness ==
  last.err = "refused_bad_peer" /\ ~last.connect /\ cfg.static = <<>>

\* C8: a connect attempt in which Transport.Connect is called and fails
\* raises the peer's bad-response count by exactly one and leaves the other
\* peers' counts alone; an attempt that succeeds, is skipped as a self-dial or
\* is refused as a bad peer leaves every count unchanged.
C8_BadResponseOnFailure ==
  [][\A a \in Attempts :
       Ran(a) =>
         IF last'.connect /\ last'.err = "dial_failed"
         THEN badResponses' = [badResponses EXCEPT ![a.id] = @ + 1]
         ELSE badResponses' = badResponses]_vars

\* C8 witness: a dial to a peer failed and was counted, and a later attempt
\* succeeded
C8_Witness ==
  /\ last.connect /\ last.err = "nil"
  /\ \E id \in PeerIDs : badResponses[id] = 1

\* C9: with n static peers of distinct identities, the step of Start that
\* handles them leaves exactly those n identities trusted and spawns exactly
\* one connect attempt for each, and Start's return never waits for them.
C9_StaticPeers ==
  /\ [][\A p \in Callers :
          (/\ pc[p] = "setStarted" /\ pc'[p] = "periodic"
           /\ Distinct(cfg.static) /\ NoPeer \notin Range(cfg.static))
            => /\ Cardinality(trusted') = Len(cfg.static)
               /\ trusted' = Range(cfg.static)
               /\ BagCardinality(pending') = BagCardinality(pending) + Len(cfg.static)
               /\ \A i \in Range(cfg.static) :
                    LET a == [id |-> i, kind |-> "static"]
                    IN CopiesIn(a, pending') = CopiesIn(a, pending) + 1]_vars
  /\ [](\A p \in Callers :
          (pc[p] = "periodic" /\ ~exited) => ENABLED RegisterPeriodic(p))

\* C9 witness: Start has returned with three static peers trusted and their
\* three connect attempts all still unfinished
C9_Witness ==
  /\ Len(cfg.static) = 3 /\ pc[1] = "idle" /\ started /\ tasks > 0
  /\ Cardinality(trusted) = 3
  /\ BagCardinality(pending) = 3
  /\ \A a \in BagToSet(pending) : a.kind = "static"

\* C10: when every bootstrap entry parses, connectToBootnodes spawns a
\* connect attempt for exactly the identities of the entries that carry a
\* TCP port; entries of one identity share one attempt.
C10_BootnodesWithTcp ==
  [][\A p \in Callers :
       (/\ pc[p] = "bootnodes" /\ pc'[p] # "bootnodes"
        /\ \A i \in 1..Len(cfg.boot) : cfg.boot[i].parses)
         => pending' = pending (+)
              SetToBag({[id |-> e.id, kind |-> "boot"] :
                          e \in {x \in Range(cfg.boot) : x.tcp}})]_vars

\* C10 witness: the first entry has no TCP port and was skipped, the second
\* entry, of another identity, is dialed
C10_Witness ==
  /\ Len(cfg.boot) = 2
  /\ cfg.boot[1].parses /\ cfg.boot[2].parses
  /\ ~cfg.boot[1].tcp /\ cfg.boot[2].tcp
  /\ cfg.boot[1].id # cfg.boot[2].id
  /\ pc[1] = "setStarted"
  /\ BagToSet(pending) = {[id |-> cfg.boot[2].id, kind |-> "boot"]}

\* C11 as stated: when a bootstrap entry fails to parse only that entry is
\* dropped; connectToBootnodes still spawns a connect attempt for every other
\* entry that parses and carries a TCP port, wherever the malformed entry
\* sits in the list.
C11_Original ==
  [][\A p \in Callers :
       (pc[p] = "bootnodes" /\ pc'[p] # "bootnodes")
         => pending' = pending (+)
              SetToBag({[id |-> e.id, kind |-> "boot"] :
                          e \in {x \in Range(cfg.boot) : x.parses /\ x.tcp}})]_vars

\* the step is caller p's startDiscoveryV5 returning an error
DiscoveryFails(p) ==
  /\ pc[p] = "discovery" /\ ~cfg.noDiscovery
  /\ (pc'[p] = "idle" \/ exited' # exited)

\* C12 as stated: when discovery is enabled and the listener fails to start,
\* Start records the error in startupErr and returns, leaving started, the
\* trusted set and the periodic tasks as they were, and a Status call
\* afterwards returns an error.
C12_Original ==
  [][\A p \in Callers :
       DiscoveryFails(p)
         => /\ startupErr' = "discovery_error"
            /\ pc'[p] = "idle" /\ ~exited'
            /\ started' = started /\ trusted' = trusted /\ tasks' = tasks
            /\ Status' # "nil"]_vars

\* C13 as stated: a Start call made while an earlier Start has been invoked
\* and no Stop has completed since, also one that arrives while the first is
\* blocked in the genesis wait, is a no-op: no step of it changes host state,
\* starts a discovery listener, dials a peer or registers a periodic task.
C13_Original ==
  [][\A p \in hist.dup :
       (InStart(p) /\ pc'[p] # pc[p])
         => UNCHANGED <<started, isPreGenesis, genesisTime, startupErr,
                        dv5Listener, openListeners, discLoops, trusted,
                        pending, last, tasks>>]_vars

\* C14 as stated: a connect attempt for a peer of the trust set reaches
\* Transport.Connect whenever the peer is not the local identity, also when
\* the Reputation collaborator reports the peer bad, and never calls
\* Transport.Connect when the peer is the local identity.
C14_Original ==
  [][\A a \in Attempts :
       (a.kind = "static" /\ a.id \in trusted /\ Ran(a))
         => (last'.connect <=> a.id # SelfID)]_vars

\* C15 as stated: within a batch the failure of one member never prevents a
\* connect attempt for another member: the static batch spawns an attempt
\* for every address that names a peer, also when another address of the
\* batch cannot be converted, and an attempt that ends (refused, failed or
\* timed out) takes no other spawned attempt with it.
C15_Original ==
  /\ [][\A p \in Callers :
          (pc[p] = "setStarted" /\ pc'[p] = "periodic")
            => \A i \in Range(cfg.static) \ {NoPeer} :
                 LET a == [id |-> i, kind |-> "static"]
                 IN CopiesIn(a, pending') > CopiesIn(a, pending)]_vars
  /\ [][\A a \in Attempts :
          Ran(a) => \A b \in Attempts \ {a} :
                      CopiesIn(b, pending') = CopiesIn(b, pending)]_vars

\* C16 as stated: once a Stop has returned that was called with no Start in
\* progress, and until Start is called again, every discovery listener that
\* a Start has started is closed, whichever path that Start took.
C16_Original ==
  (hist.stopped /\ hist.quiet) => openListeners = {}

\* C17: once Stop has returned, and as long as Start is not called again,
\* the shared cancellation signal is set, no periodic task can begin another
\* run and the discovery loop can forward no further node.
C17_StopSilences ==
  hist.stopped =>
    (ctxDone /\ ~ENABLED TaskTick /\ ~ENABLED ListenForNewNodes)

\* C17 witness: Stop has returned on a service whose periodic tasks have
\* run and whose discovery loop was started and could still forward a node
C17_Witness ==
  /\ hist.stopped /\ hist.ticked
  /\ tasks > 0 /\ discLoops > 0 /\ hist.discovered < MaxDiscovered

\* C18 as stated: within a Stop call the cancellation signal is cancelled
\* before the listener is closed and before started is set to false, so once
\* started has been set to false or the listener has been closed by a Stop
\* still in progress, the signal is set and no periodic task tick and no
\* discovery-loop iteration can start.
C18_Original ==
  \A p \in Callers :
    pc[p] \in {"stopClose", "stopCancel"}
      => (ctxDone /\ ~ENABLED TaskTick /\ ~ENABLED ListenForNewNodes)

\* C19: over any sequence of Start, Stop and Status calls genesisTime is
\* written at most once and never changes once set, isPreGenesis never goes
\* back to true, and isPreGenesis is false only when the genesis data has
\* been recorded.
C19_GenesisOnce ==
  /\ [][genesisTime # 0 => genesisTime' = genesisTime]_vars
  /\ [][~isPreGenesis => ~isPreGenesis']_vars
  /\ [](~isPreGenesis => isInitialized)
  /\ [](hist.writes <= 1)

\* C19 witness: after one recording of the genesis data a Stop has returned
\* and a second Start has gone through the genesis gate and set started
C19_Witness ==
  /\ hist.writes = 1 /\ genesisTime # 0 /\ ~isPreGenesis
  /\ hist.budget = 0 /\ ctxDone /\ started

\* C20: the cancellation signal made at construction is never reset: once
\* cancelled it stays cancelled through every later Start, and under it no
\* periodic task can fire and no dial can succeed, although a later Start
\* with discovery disabled returns with started true and Status healthy.
C20_ContextNeverReset ==
  /\ [][ctxDone => ctxDone']_vars
  /\ [](ctxDone => ~ENABLED TaskTick)
  /\ [][(ctxDone /\ last' # last)
          => ~(last'.connect /\ last'.err = "nil")]_vars

\* C20 witness: a second Start with discovery disabled, called after the
\* signal was cancelled, has returned: started is true, Status is healthy, ten periodic tasks are
\* registered, the relay dial made by that Start has failed, and the signal
\* is still cancelled
C20_Witness ==
  /\ hist.late /\ hist.dup = {}
  /\ ctxDone /\ started /\ hist.running /\ Status = "nil"
  /\ cfg.noDiscovery /\ cfg.relay # NoPeer
  /\ tasks = 2 * NumPeriodic /\ last.err = "dial_failed"
  /\ \A p \in Callers : pc[p] = "idle"

====
